---- MODULE Spec2Model ----
(***************************************************************************)
(* State machine of the KonvaTextEditor component (src/unnamed/part_000):  *)
(* the React state of the component, the refs it keeps, and the two        *)
(* attributes of the Konva scene that its handlers read back (the node the *)
(* Transformer is attached to and the scale of that node).                 *)
(*                                                                         *)
(* Every action is one event handler run to completion, followed by the    *)
(* re-render and the effects that the handler's state updates trigger:     *)
(* the history effect keyed on textNodes and the transformer effect keyed  *)
(* on selectedId.                                                          *)
(*                                                                         *)
(* Numbers are integers.  A scale factor is a fraction <<num, den>>; a     *)
(* product value * scale is taken only for pairs whose product is an       *)
(* integer.  The overlay <input> is uncontrolled, but every write to its   *)
(* DOM value is paired with the same write to editText (defaultValue on    *)
(* mount, the timeout of handleTextDoubleClick, onChange), so editText     *)
(* stands for both.                                                        *)
(*                                                                         *)
(* Events arrive as the browser delivers them: a pointer event outside the *)
(* focused overlay input is preceded by the input's blur event, a resize   *)
(* or drag gesture holds the pointer until its end event, and the keyboard *)
(* shortcuts of the window listener are available throughout.              *)
(***************************************************************************)
EXTENDS Integers, Sequences, FiniteSets, TLC

VARIABLES
    mounted,          \* the mount effects have run
    textNodes,        \* useState<TextNode[]>
    selectedId,       \* useState<string | null>
    editText,         \* useState("") and the overlay input's value
    currentColor,     \* useState("#000000")
    currentFontSize,  \* useState(20)
    history,          \* useState<TextNode[][]>
    historyIndex,     \* useState(-1)
    isDragging,       \* useRef(false)
    inputFocused,     \* DOM: the overlay input has the focus
    trNodes,          \* scene: nodes the mounted Transformer is attached to
    scaleX            \* scene: scale factor of the node under the Transformer

vars == <<mounted, textNodes, selectedId, editText, currentColor,
          currentFontSize, history, historyIndex, isDragging, inputFocused,
          trNodes, scaleX>>

----------------------------------------------------------------------------
(* Bounds of the model *)

MaxHistory == 4
MaxNodes == 2
MaxClock == 2
MaxHistoryApp == 5

(* Program constants *)

MinFontSize == 5
DefaultX == 50
DefaultY == 50
DefaultFontSize == 20
SliderMin == 10
DefaultColor == "#000000"
DefaultText == "Double click to edit"
Null == "null"

(* Inputs *)

Clock == 1..MaxClock
Colors == {DefaultColor, "#ff0000"}
Texts == {"Hello"}
Positions == {<<120, 80>>}
SliderSizes == {SliderMin}
RequestedSizes == {3}
Unit == <<1, 1>>
Scales == {<<1, 10>>}
NodeSize == <<100, 20>>
Handle == "transformer-handle"
Stage == "stage"

----------------------------------------------------------------------------
(* Helpers *)

Digits == <<"0", "1", "2", "3", "4", "5", "6", "7", "8", "9">>

RECURSIVE toString(_)
toString(n) ==
    IF n < 10 THEN Digits[n + 1]
    ELSE toString(n \div 10) \o Digits[(n % 10) + 1]

Max(a, b) == IF a >= b THEN a ELSE b

Exact(v, s) == (v * s[1]) % s[2] = 0
Times(v, s) == (v * s[1]) \div s[2]

\* textNodes.find((n) => n.id === id): index of the first match, 0 if none
find(nodes, id) ==
    IF \E i \in DOMAIN nodes : nodes[i].id = id
    THEN CHOOSE i \in DOMAIN nodes :
            /\ nodes[i].id = id
            /\ \A j \in DOMAIN nodes : nodes[j].id = id => i <= j
    ELSE 0

\* textNodes.find((n) => n.id === selectedId)?.isEditing
findIsEditing(nodes, id) ==
    LET i == find(nodes, id) IN IF i = 0 THEN FALSE ELSE nodes[i].isEditing

\* <Text id={node.id}> is rendered for every node that is not editing
TextRendered(nodes, id) ==
    \E i \in DOMAIN nodes : nodes[i].id = id /\ ~nodes[i].isEditing

\* <Transformer> is rendered
TransformerRendered(nodes, sel) == sel # Null /\ ~findIsEditing(nodes, sel)

\* the overlay <input> is rendered
InputRendered(nodes) == \E i \in DOMAIN nodes : nodes[i].isEditing

\* JSON.stringify of one node: the values in key order; width and height
\* are keys only once handleTransformEnd has added them
stringifyNode(n) ==
    <<n.id, n.x, n.y, n.text, n.fontSize, n.fontColor, n.isEditing>> \o n.box

parseNode(t) ==
    [id |-> t[1], x |-> t[2], y |-> t[3], text |-> t[4], fontSize |-> t[5],
     fontColor |-> t[6], isEditing |-> t[7],
     box |-> IF Len(t) > 7 THEN <<t[8], t[9]>> ELSE <<>>]

stringify(nodes) == [i \in DOMAIN nodes |-> stringifyNode(nodes[i])]
parse(s) == [i \in DOMAIN s |-> parseNode(s[i])]

isEqual(a, b) == stringify(a) = stringify(b)
cloneDeep(nodes) == parse(stringify(nodes))

\* history is a JS array, index 0 first
At(h, i) == h[i + 1]
slice(h, n) == SubSeq(h, 1, n)

\* Record with the slice forgotten: the snapshot is appended to the whole log
Record_NoTruncate(h, hi, nodes) ==
    IF hi = -1 \/ ~isEqual(At(h, hi), nodes)
    THEN [history |-> Append(h, cloneDeep(nodes)), historyIndex |-> hi + 1]
    ELSE [history |-> h, historyIndex |-> hi]

\* Record with the equality test forgotten: every pass appends
Record_AlwaysPush(h, hi, nodes) ==
    LET newHistory == Append(slice(h, hi + 1), cloneDeep(nodes))
    IN  [history |-> newHistory, historyIndex |-> Len(newHistory) - 1]

\* Record that writes the snapshot over the entry at the cursor
Record_Overwrite(h, hi, nodes) ==
    IF hi = -1
    THEN [history |-> Append(h, cloneDeep(nodes)), historyIndex |-> Len(h)]
    ELSE [history |-> [h EXCEPT ![hi + 1] = cloneDeep(nodes)], historyIndex |-> hi]

\* the effect keyed on textNodes, run with the history and the historyIndex
\* of the render that produced nodes
Record(h, hi, nodes) ==
    IF hi = -1 \/ ~isEqual(At(h, hi), nodes)
    THEN LET newHistory == Append(slice(h, hi + 1), cloneDeep(nodes))
         IN  [history |-> newHistory, historyIndex |-> Len(newHistory) - 1]
    ELSE [history |-> h, historyIndex |-> hi]

\* the Transformer after a render: an instance lives as long as the element
\* stays rendered, a new instance has no nodes, and the effect keyed on
\* selectedId attaches the scene node of the selected object
Attach(tr, nodes, sel, nodes2, sel2) ==
    LET kept == IF TransformerRendered(nodes, sel)
                   /\ TransformerRendered(nodes2, sel2)
                THEN tr ELSE <<>>
    IN  IF sel2 # sel /\ sel2 # Null /\ TransformerRendered(nodes2, sel2)
           /\ TextRendered(nodes2, sel2)
        THEN <<sel2>>
        ELSE kept

\* addTextNode with the initial style in place of the current one
newTextNode_DefaultStyle(now) ==
    [id |-> toString(now), x |-> DefaultX, y |-> DefaultY,
     text |-> DefaultText, fontSize |-> DefaultFontSize,
     fontColor |-> DefaultColor, isEditing |-> FALSE, box |-> <<>>]

\* now is Date.now()
newTextNode(now) ==
    [id |-> toString(now), x |-> DefaultX, y |-> DefaultY,
     text |-> DefaultText, fontSize |-> currentFontSize,
     fontColor |-> currentColor, isEditing |-> FALSE, box |-> <<>>]

----------------------------------------------------------------------------
(* Effects after a handler *)

\* setTextNodes was called: the history effect runs on the new list
Recorded(hi) ==
    LET r == Record(history, hi, textNodes')
    IN  /\ history' = r.history
        /\ historyIndex' = r.historyIndex
        /\ Len(r.history) <= MaxHistory

\* the re-render: the Transformer element and the effect keyed on selectedId
Rendered ==
    trNodes' = Attach(trNodes, textNodes, selectedId, textNodes', selectedId')

\* The pointer is held down during a drag and a resize: until the gesture's
\* end only the handlers of that gesture, the handlers that read isDragging
\* and the keyboard shortcuts run.
NoResize == scaleX = Unit
NoGesture == ~isDragging /\ NoResize

\* The pointer acts outside the overlay input only once the input has lost
\* the focus (its blur event comes first).
Pointer == ~inputFocused

\* the focus after the render: f while the input stays rendered
Focus(f) == inputFocused' = (InputRendered(textNodes') /\ f)

\* a node newly under the Transformer has not been scaled
KeepScale == scaleX' = IF trNodes' = trNodes THEN scaleX ELSE Unit

\* the render and the effects after a handler that called setTextNodes
Settled(hi, f) ==
    /\ Recorded(hi)
    /\ Rendered
    /\ KeepScale
    /\ Focus(f)

----------------------------------------------------------------------------
Init ==
    /\ mounted = FALSE
    /\ textNodes = <<>>
    /\ selectedId = Null
    /\ editText = ""
    /\ currentColor = DefaultColor
    /\ currentFontSize = DefaultFontSize
    /\ history = <<>>
    /\ historyIndex = -1
    /\ isDragging = FALSE
    /\ inputFocused = FALSE
    /\ trNodes = <<>>
    /\ scaleX = Unit

\* first render with one pass of the history effect, on the list with the
\* new node
Mount_SinglePass(now) ==
    /\ ~mounted
    /\ mounted' = TRUE
    /\ textNodes' = Append(textNodes, newTextNode(now))
    /\ selectedId' = newTextNode(now).id
    /\ LET r == Record(history, historyIndex, textNodes')
       IN  /\ history' = r.history
           /\ historyIndex' = r.historyIndex
    /\ Rendered
    /\ KeepScale
    /\ UNCHANGED <<editText, currentColor, currentFontSize, isDragging, inputFocused>>

\* first render: the mount effect calls addTextNode, the history effect runs
\* on the empty list, and runs again after the re-render with the new node
Mount(now) ==
    /\ ~mounted
    /\ mounted' = TRUE
    /\ textNodes' = Append(textNodes, newTextNode(now))
    /\ selectedId' = newTextNode(now).id
    /\ LET r1 == Record(history, historyIndex, textNodes)
           r2 == Record(r1.history, r1.historyIndex, textNodes')
       IN  /\ history' = r2.history
           /\ historyIndex' = r2.historyIndex
    /\ Rendered
    /\ KeepScale
    /\ UNCHANGED <<editText, currentColor, currentFontSize, isDragging, inputFocused>>

addTextNode(now) ==
    /\ mounted
    /\ Pointer
    /\ NoGesture
    /\ Len(textNodes) < MaxNodes
    /\ textNodes' = Append(textNodes, newTextNode(now))
    /\ selectedId' = newTextNode(now).id
    /\ Settled(historyIndex, inputFocused)
    /\ UNCHANGED <<mounted, editText, currentColor, currentFontSize, isDragging>>

\* Stage onClick; target is the stage, a rendered text node or another shape
ClickTargets ==
    {Stage} \cup {textNodes[i].id : i \in {j \in DOMAIN textNodes : ~textNodes[j].isEditing}}
            \cup (IF trNodes # <<>> THEN {Handle} ELSE {})

\* the selection and the style controls after handleStageClick, run with the
\* flag dragging and the state of the last render
clickResult(dragging, target, nodes, sel, color, size) ==
    IF dragging
    THEN [selectedId |-> sel, currentColor |-> color, currentFontSize |-> size]
    ELSE IF target = Stage \/ target = Handle
         THEN [selectedId |-> Null, currentColor |-> color,
               currentFontSize |-> size]
         ELSE LET i == find(nodes, target)
              IN  [selectedId |-> target,
                   currentColor |-> IF i # 0 THEN nodes[i].fontColor ELSE color,
                   currentFontSize |-> IF i # 0 THEN nodes[i].fontSize ELSE size]

handleStageClick(target) ==
    /\ mounted
    /\ Pointer
    /\ NoResize
    /\ target \in ClickTargets
    /\ isDragging' = FALSE
    /\ LET c == clickResult(isDragging, target, textNodes, selectedId,
                            currentColor, currentFontSize)
       IN  /\ selectedId' = c.selectedId
           /\ currentColor' = c.currentColor
           /\ currentFontSize' = c.currentFontSize
    /\ UNCHANGED <<textNodes, history, historyIndex>>
    /\ Rendered
    /\ KeepScale
    /\ UNCHANGED <<mounted, editText, inputFocused>>

handleDragStart(id) ==
    /\ mounted
    /\ Pointer
    /\ NoResize
    /\ ~isDragging
    /\ TextRendered(textNodes, id)
    /\ isDragging' = TRUE
    /\ UNCHANGED <<mounted, textNodes, selectedId, editText, currentColor,
                   currentFontSize, history, historyIndex, inputFocused,
                   trNodes, scaleX>>

\* { ...node, x: e.target.x() } with the y forgotten
moveNode_XOnly(node, pos) == [node EXCEPT !.x = pos[1]]

\* { ...node, x: e.target.x(), y: e.target.y() }
moveNode(node, pos) == [node EXCEPT !.x = pos[1], !.y = pos[2]]

\* dragend follows dragstart; id is the dragged node, whose object may have
\* left the list since; pos is e.target.x(), e.target.y()
handleDragEnd(id, pos) ==
    /\ mounted
    /\ NoResize
    /\ isDragging
    /\ textNodes' = [i \in DOMAIN textNodes |->
           IF textNodes[i].id = id THEN moveNode(textNodes[i], pos)
                                   ELSE textNodes[i]]
    /\ UNCHANGED selectedId
    /\ isDragging' = FALSE
    /\ Settled(historyIndex, inputFocused)
    /\ UNCHANGED <<mounted, editText, currentColor, currentFontSize>>

\* Math.max(5, node.fontSize * scaleX) of handleTransform
candidateFontSize(fontSize, s) == Max(MinFontSize, Times(fontSize, s))

\* handleTransformEnd without the floor
resizedFontSize_NoClamp(fontSize, s) == Times(fontSize, s)

\* Math.max(5, node.fontSize * e.target.scaleX()) of handleTransformEnd
resizedFontSize(fontSize, s) == Max(MinFontSize, Times(fontSize, s))

\* the gesture scales the node about its origin by the same factor on both
\* axes: e.target.x(), e.target.y() are the node's position, and the node
\* measures NodeSize (e.target.width(), e.target.height())
resizeNode(node, s) ==
    [node EXCEPT !.x = node.x, !.y = node.y,
                 !.fontSize = resizedFontSize(node.fontSize, s),
                 !.box = <<Times(NodeSize[1], s), Times(NodeSize[2], s)>>]

\* the list that the setTextNodes of handleTransformEnd produces
transformEndNodes(nodes, id, s) ==
    [j \in DOMAIN nodes |->
        IF nodes[j].id = id THEN resizeNode(nodes[j], s) ELSE nodes[j]]

\* handleTransform that stores the candidate in the object
handleTransform_Settles ==
    /\ mounted
    /\ ~isDragging
    /\ trNodes # <<>>
    /\ LET id == trNodes[1]
           i == find(textNodes, id)
       IN  IF i = 0
           THEN UNCHANGED <<textNodes, currentFontSize, history, historyIndex,
                            scaleX>>
           ELSE /\ Exact(textNodes[i].fontSize, scaleX)
                /\ LET newFontSize == candidateFontSize(textNodes[i].fontSize, scaleX)
                   IN  /\ currentFontSize' = IF selectedId = id THEN newFontSize
                                              ELSE currentFontSize
                       /\ textNodes' = [j \in DOMAIN textNodes |->
                              IF textNodes[j].id = id
                              THEN [textNodes[j] EXCEPT !.fontSize = newFontSize]
                              ELSE textNodes[j]]
                /\ Recorded(historyIndex)
                /\ scaleX' = Unit
    /\ UNCHANGED <<mounted, selectedId, editText, currentColor, isDragging,
                   inputFocused, trNodes>>

\* the Transformer writes the scale of the gesture into its node
TransformerScale(s) ==
    /\ mounted
    /\ Pointer
    /\ ~isDragging
    /\ trNodes # <<>>
    /\ s # scaleX
    /\ scaleX' = s
    /\ UNCHANGED <<mounted, textNodes, selectedId, editText, currentColor,
                   currentFontSize, history, historyIndex, isDragging,
                   inputFocused, trNodes>>

handleTransform ==
    /\ mounted
    /\ ~isDragging
    /\ trNodes # <<>>
    /\ LET id == trNodes[1]
           i == find(textNodes, id)
       IN  IF i = 0
           THEN UNCHANGED <<currentFontSize, scaleX>>
           ELSE /\ Exact(textNodes[i].fontSize, scaleX)
                /\ LET newFontSize == candidateFontSize(textNodes[i].fontSize, scaleX)
                   IN  currentFontSize' = IF selectedId = id THEN newFontSize
                                          ELSE currentFontSize
                /\ scaleX' = Unit
    /\ UNCHANGED <<mounted, textNodes, selectedId, editText, currentColor,
                   history, historyIndex, isDragging, inputFocused, trNodes>>

handleTransformEnd ==
    /\ mounted
    /\ ~isDragging
    /\ trNodes # <<>>
    /\ UNCHANGED selectedId
    /\ LET id == trNodes[1]
           i == find(textNodes, id)
       IN  IF i = 0
           THEN UNCHANGED <<textNodes, history, historyIndex, inputFocused,
                            trNodes, scaleX>>
           ELSE /\ \A j \in DOMAIN textNodes :
                      textNodes[j].id = id => Exact(textNodes[j].fontSize, scaleX)
                /\ Exact(NodeSize[1], scaleX) /\ Exact(NodeSize[2], scaleX)
                /\ textNodes' = transformEndNodes(textNodes, id, scaleX)
                /\ Recorded(historyIndex)
                /\ Rendered
                /\ Focus(inputFocused)
                /\ scaleX' = Unit
    /\ UNCHANGED <<mounted, editText, currentColor, currentFontSize, isDragging>>

\* updateTextNode(id, { isEditing: true }) of the variant src/src/App.tsx
beginEdit_TargetOnly(nodes, id) ==
    [i \in DOMAIN nodes |->
        IF nodes[i].id = id THEN [nodes[i] EXCEPT !.isEditing = TRUE] ELSE nodes[i]]

\* prevNodes.map((n) => n.id === id ? {...n, isEditing: true}
\*                                  : {...n, isEditing: false})
beginEdit(nodes, id) ==
    [i \in DOMAIN nodes |-> [nodes[i] EXCEPT !.isEditing = (nodes[i].id = id)]]

\* the timeout of the handler gives the overlay input the focus
handleTextDoubleClick(id) ==
    /\ mounted
    /\ Pointer
    /\ NoResize
    /\ TextRendered(textNodes, id)
    /\ IF isDragging
       THEN UNCHANGED <<textNodes, selectedId, editText, currentColor,
                        currentFontSize, history, historyIndex, inputFocused,
                        trNodes, scaleX>>
       ELSE LET node == textNodes[find(textNodes, id)]
            IN  /\ editText' = node.text
                /\ selectedId' = id
                /\ currentColor' = node.fontColor
                /\ currentFontSize' = node.fontSize
                /\ textNodes' = beginEdit(textNodes, id)
                /\ Settled(historyIndex, TRUE)
    /\ UNCHANGED <<mounted, isDragging>>

\* the pointer is pressed inside the overlay input
FocusInput ==
    /\ mounted
    /\ NoGesture
    /\ InputRendered(textNodes)
    /\ ~inputFocused
    /\ inputFocused' = TRUE
    /\ UNCHANGED <<mounted, textNodes, selectedId, editText, currentColor,
                   currentFontSize, history, historyIndex, isDragging,
                   trNodes, scaleX>>

\* onChange of the overlay input
handleInputChange(v) ==
    /\ mounted
    /\ NoGesture
    /\ inputFocused
    /\ editText' = v
    /\ UNCHANGED <<mounted, textNodes, selectedId, currentColor,
                   currentFontSize, history, historyIndex, isDragging,
                   inputFocused, trNodes, scaleX>>

\* textInputRef.current?.value || editText
updatedText(value, text) == IF value # "" THEN value ELSE text

\* the setTextNodes of handleInputBlur
commitEdit(nodes, sel, text, color, size) ==
    LET committed(node) ==
            [node EXCEPT !.text = text, !.fontColor = color,
                         !.fontSize = size, !.isEditing = FALSE]
    IN  [i \in DOMAIN nodes |->
            IF nodes[i].id = sel THEN committed(nodes[i]) ELSE nodes[i]]

\* the list after handleInputBlur
blurNodes(nodes, sel, text, color, size) ==
    IF sel = Null THEN nodes
    ELSE commitEdit(nodes, sel, updatedText(text, text), color, size)

\* onBlur (the focus is lost) and Enter (the focus is kept) of the overlay input
handleInputBlur(keepFocus) ==
    /\ mounted
    /\ NoGesture
    /\ inputFocused
    /\ UNCHANGED selectedId
    /\ textNodes' = blurNodes(textNodes, selectedId, editText, currentColor,
                              currentFontSize)
    /\ IF selectedId = Null
       THEN /\ inputFocused' = keepFocus
            /\ UNCHANGED <<editText, history, historyIndex, trNodes, scaleX>>
       ELSE /\ editText' = updatedText(editText, editText)
            /\ Settled(historyIndex, keepFocus)
    /\ UNCHANGED <<mounted, currentColor, currentFontSize, isDragging>>

handleFontSizeChange(size) ==
    /\ mounted
    /\ Pointer
    /\ NoGesture
    /\ selectedId # Null
    /\ UNCHANGED selectedId
    /\ currentFontSize' = size
    /\ LET sized(node) == [node EXCEPT !.fontSize = size]
       IN  textNodes' = [i \in DOMAIN textNodes |->
               IF textNodes[i].id = selectedId THEN sized(textNodes[i])
                                               ELSE textNodes[i]]
    /\ Settled(historyIndex, inputFocused)
    /\ UNCHANGED <<mounted, editText, currentColor, isDragging>>

handleColorChange(color) ==
    /\ mounted
    /\ Pointer
    /\ NoGesture
    /\ selectedId # Null
    /\ UNCHANGED selectedId
    /\ currentColor' = color
    /\ LET colored(node) == [node EXCEPT !.fontColor = color]
       IN  textNodes' = [i \in DOMAIN textNodes |->
               IF textNodes[i].id = selectedId THEN colored(textNodes[i])
                                               ELSE textNodes[i]]
    /\ Settled(historyIndex, inputFocused)
    /\ UNCHANGED <<mounted, editText, currentFontSize, isDragging>>

undoIndex(h, hi) == hi - 1
redoIndex(h, hi) == hi + 1

\* undo and redo that keep the selection
timeTravelSelection_Keep(sel) == sel

\* setSelectedId(null) of undo and redo
timeTravelSelection(sel) == Null

\* setHistoryIndex(newIndex); setTextNodes(cloneDeep(history[newIndex])), and
\* the history effect of the render that follows
timeTravel(h, newIndex) ==
    LET nodes == cloneDeep(At(h, newIndex))
        r == Record(h, newIndex, nodes)
    IN  [textNodes |-> nodes, history |-> r.history, historyIndex |-> r.historyIndex]

undoResult(h, hi, nodes) ==
    IF hi > 0 THEN timeTravel(h, undoIndex(h, hi))
    ELSE [textNodes |-> nodes, history |-> h, historyIndex |-> hi]

redoResult(h, hi, nodes) ==
    IF hi < Len(h) - 1 THEN timeTravel(h, redoIndex(h, hi))
    ELSE [textNodes |-> nodes, history |-> h, historyIndex |-> hi]

\* the selection after undo: setSelectedId(null) is inside the if
undoSelection(h, hi, sel) == IF hi > 0 THEN timeTravelSelection(sel) ELSE sel

\* redo with setSelectedId(null) outside the if
redoSelection_Always(h, hi, sel) == timeTravelSelection(sel)

\* the selection after redo: setSelectedId(null) is inside the if
redoSelection(h, hi, sel) ==
    IF hi < Len(h) - 1 THEN timeTravelSelection(sel) ELSE sel

undo ==
    /\ mounted
    /\ NoResize
    /\ LET u == undoResult(history, historyIndex, textNodes)
       IN  /\ textNodes' = u.textNodes
           /\ history' = u.history
           /\ historyIndex' = u.historyIndex
           /\ Len(u.history) <= MaxHistory
    /\ selectedId' = undoSelection(history, historyIndex, selectedId)
    /\ Rendered
    /\ KeepScale
    /\ Focus(inputFocused)
    /\ UNCHANGED <<mounted, editText, currentColor, currentFontSize, isDragging>>

redo ==
    /\ mounted
    /\ NoResize
    /\ LET r == redoResult(history, historyIndex, textNodes)
       IN  /\ textNodes' = r.textNodes
           /\ history' = r.history
           /\ historyIndex' = r.historyIndex
           /\ Len(r.history) <= MaxHistory
    /\ selectedId' = redoSelection(history, historyIndex, selectedId)
    /\ Rendered
    /\ KeepScale
    /\ Focus(inputFocused)
    /\ UNCHANGED <<mounted, editText, currentColor, currentFontSize, isDragging>>

\* deleteSelected that forgets setSelectedId(null)
deleteResult_KeepSelection(nodes, sel) ==
    IF sel = Null THEN [textNodes |-> nodes, selectedId |-> sel]
    ELSE [textNodes |-> SelectSeq(nodes, LAMBDA node : node.id # sel),
          selectedId |-> sel]

\* the list and the selection after deleteSelected
deleteResult(nodes, sel) ==
    IF sel = Null THEN [textNodes |-> nodes, selectedId |-> sel]
    ELSE [textNodes |-> SelectSeq(nodes, LAMBDA node : node.id # sel),
          selectedId |-> Null]

\* the Delete button is rendered while an object is selected
deleteSelected ==
    /\ mounted
    /\ Pointer
    /\ NoGesture
    /\ selectedId # Null
    /\ textNodes' = deleteResult(textNodes, selectedId).textNodes
    /\ selectedId' = deleteResult(textNodes, selectedId).selectedId
    /\ Settled(historyIndex, inputFocused)
    /\ UNCHANGED <<mounted, editText, currentColor, currentFontSize, isDragging>>

FirstRender == Mount(1)
AddText == \E now \in Clock : addTextNode(now)
StageClick == \E target \in ClickTargets : handleStageClick(target)
DragStart == \E i \in DOMAIN textNodes : handleDragStart(textNodes[i].id)
DragEnd == \E k \in Clock, pos \in Positions : handleDragEnd(toString(k), pos)
Resize == \E s \in Scales \cup {Unit} : TransformerScale(s)
DoubleClick == \E i \in DOMAIN textNodes : handleTextDoubleClick(textNodes[i].id)
InputChange == \E v \in Texts : handleInputChange(v)
InputBlur == handleInputBlur(FALSE)
InputEnter == handleInputBlur(TRUE)
SliderChange == \E size \in SliderSizes : handleFontSizeChange(size)
ColorChange == \E color \in Colors : handleColorChange(color)

Next ==
    \/ FirstRender
    \/ AddText
    \/ StageClick
    \/ DragStart
    \/ DragEnd
    \/ Resize
    \/ handleTransform
    \/ handleTransformEnd
    \/ DoubleClick
    \/ FocusInput
    \/ InputChange
    \/ InputBlur
    \/ InputEnter
    \/ SliderChange
    \/ ColorChange
    \/ undo
    \/ redo
    \/ deleteSelected

Spec == Init /\ [][Next]_vars

\* handleFontSizeChange called with a size the slider cannot produce
RequestedSizeChange == \E size \in RequestedSizes : handleFontSizeChange(size)

NextAnySize ==
    \/ Next
    \/ RequestedSizeChange

SpecAnySize == Init /\ [][NextAnySize]_vars

----------------------------------------------------------------------------
(* The variant src/src/App.tsx.  Its mount effect, record effect,           *)
(* transformer effect and overlay input events are those of part_000; it    *)
(* has no isDragging flag, begins an edit with updateTextNode on the target *)
(* only, commits editText, and keeps the selection over undo and redo.      *)
(* The actions below are its select, begin edit, commit edit, add, delete,  *)
(* undo and redo.                                                           *)

AppRecorded(hi) ==
    LET r == Record(history, hi, textNodes')
    IN  /\ history' = r.history
        /\ historyIndex' = r.historyIndex
        /\ Len(r.history) <= MaxHistoryApp

AppSettled(hi, f) ==
    /\ AppRecorded(hi)
    /\ Rendered
    /\ KeepScale
    /\ Focus(f)

App_addTextNode(now) ==
    /\ mounted
    /\ Pointer
    /\ Len(textNodes) < MaxNodes
    /\ textNodes' = Append(textNodes, newTextNode(now))
    /\ selectedId' = newTextNode(now).id
    /\ AppSettled(historyIndex, inputFocused)
    /\ UNCHANGED <<mounted, editText, currentColor, currentFontSize, isDragging>>

App_handleStageClick(target) ==
    /\ mounted
    /\ Pointer
    /\ target \in ClickTargets
    /\ LET c == clickResult(FALSE, target, textNodes, selectedId,
                            currentColor, currentFontSize)
       IN  /\ selectedId' = c.selectedId
           /\ currentColor' = c.currentColor
           /\ currentFontSize' = c.currentFontSize
    /\ UNCHANGED <<textNodes, history, historyIndex>>
    /\ Rendered
    /\ KeepScale
    /\ UNCHANGED <<mounted, editText, isDragging, inputFocused>>

App_handleTextDoubleClick(id) ==
    /\ mounted
    /\ Pointer
    /\ TextRendered(textNodes, id)
    /\ LET node == textNodes[find(textNodes, id)]
       IN  /\ editText' = node.text
           /\ selectedId' = id
           /\ currentColor' = node.fontColor
           /\ currentFontSize' = node.fontSize
           /\ textNodes' = beginEdit_TargetOnly(textNodes, id)
           /\ AppSettled(historyIndex, TRUE)
    /\ UNCHANGED <<mounted, isDragging>>

\* the overlay input is controlled: the committed text is editText
App_handleInputBlur(keepFocus) ==
    /\ mounted
    /\ inputFocused
    /\ UNCHANGED selectedId
    /\ IF selectedId = Null
       THEN /\ inputFocused' = keepFocus
            /\ UNCHANGED <<textNodes, history, historyIndex, trNodes, scaleX>>
       ELSE /\ textNodes' = commitEdit(textNodes, selectedId, editText,
                                       currentColor, currentFontSize)
            /\ AppSettled(historyIndex, keepFocus)
    /\ UNCHANGED <<mounted, editText, currentColor, currentFontSize, isDragging>>

App_undo ==
    /\ mounted
    /\ LET u == undoResult(history, historyIndex, textNodes)
       IN  /\ textNodes' = u.textNodes
           /\ history' = u.history
           /\ historyIndex' = u.historyIndex
           /\ Len(u.history) <= MaxHistoryApp
    /\ UNCHANGED selectedId
    /\ Rendered
    /\ KeepScale
    /\ Focus(inputFocused)
    /\ UNCHANGED <<mounted, editText, currentColor, currentFontSize, isDragging>>

App_redo ==
    /\ mounted
    /\ LET r == redoResult(history, historyIndex, textNodes)
       IN  /\ textNodes' = r.textNodes
           /\ history' = r.history
           /\ historyIndex' = r.historyIndex
           /\ Len(r.history) <= MaxHistoryApp
    /\ UNCHANGED selectedId
    /\ Rendered
    /\ KeepScale
    /\ Focus(inputFocused)
    /\ UNCHANGED <<mounted, editText, currentColor, currentFontSize, isDragging>>

App_deleteSelected ==
    /\ mounted
    /\ Pointer
    /\ selectedId # Null
    /\ textNodes' = deleteResult(textNodes, selectedId).textNodes
    /\ selectedId' = deleteResult(textNodes, selectedId).selectedId
    /\ AppSettled(historyIndex, inputFocused)
    /\ UNCHANGED <<mounted, editText, currentColor, currentFontSize, isDragging>>

AppAddText == \E now \in Clock : App_addTextNode(now)
AppStageClick == \E target \in ClickTargets : App_handleStageClick(target)
AppDoubleClick == \E i \in DOMAIN textNodes : App_handleTextDoubleClick(textNodes[i].id)
AppInputBlur == App_handleInputBlur(FALSE)
AppInputEnter == App_handleInputBlur(TRUE)

AppNext ==
    \/ FirstRender
    \/ AppAddText
    \/ AppStageClick
    \/ AppDoubleClick
    \/ FocusInput
    \/ InputChange
    \/ AppInputBlur
    \/ AppInputEnter
    \/ App_undo
    \/ App_redo
    \/ App_deleteSelected

SpecApp == Init /\ [][AppNext]_vars

----------------------------------------------------------------------------
(* Properties *)

Ids(nodes) == {nodes[i].id : i \in DOMAIN nodes}
Editing(nodes) == {i \in DOMAIN nodes : nodes[i].isEditing}
Live == [textNodes |-> textNodes, history |-> history, historyIndex |-> historyIndex]

\* C1: once the mount effects have run, after every operation the cursor is
\* inside the log and the entry under it equals the live object list.
C1_CursorEntryIsLive ==
    mounted =>
        /\ 0 <= historyIndex
        /\ historyIndex < Len(history)
        /\ history[historyIndex + 1] = textNodes

\* an undo has moved the cursor below the tail of a log of three entries
C1_Witness ==
    /\ mounted
    /\ Len(history) >= 3
    /\ historyIndex >= 1
    /\ historyIndex < Len(history) - 1

\* C2: with the cursor at c below the tail, a mutation that changes the object
\* list leaves the entries 0..c, followed by the one new snapshot, with the
\* cursor on it, so that redo has nothing left to do.
C2_BranchTruncation ==
    [][(/\ mounted
        /\ historyIndex < Len(history) - 1
        /\ textNodes' # textNodes
        /\ ~undo
        /\ ~redo)
       => (/\ history' = Append(SubSeq(history, 1, historyIndex + 1), textNodes')
           /\ historyIndex' = Len(history') - 1
           /\ redoResult(history', historyIndex', textNodes').historyIndex = historyIndex')]_vars

\* the log is [empty list, one object with the id of a later clock reading]:
\* the entry of the mount was truncated by an add at cursor 0
C2_Witness ==
    /\ mounted
    /\ Len(history) = 2
    /\ historyIndex = 1
    /\ Len(textNodes) = 1
    /\ textNodes[1].id # toString(1)

\* C3: an undo that moves the cursor, followed at once by redo, gives back the
\* object list, the log and the cursor of before the undo.
C3_UndoRedoRoundTrip ==
    [][(mounted /\ historyIndex >= 1 /\ undo)
       => redoResult(history', historyIndex', textNodes') = Live]_vars

\* an undo has acted on a document with an object in it
C3_Witness ==
    /\ mounted
    /\ historyIndex >= 1
    /\ historyIndex < Len(history) - 1
    /\ textNodes # <<>>

\* C4: selectedId is null or the id of a live object; an undo or a redo that
\* moves the cursor, and a delete, leave it null.
C4_SelectionIsLive ==
    /\ [](selectedId = Null \/ selectedId \in Ids(textNodes))
    /\ [][((undo \/ redo) /\ historyIndex' # historyIndex) => selectedId' = Null]_vars
    /\ [][deleteSelected => selectedId' = Null]_vars

\* an undo has removed the only object, which was selected before it
C4_Witness ==
    /\ mounted
    /\ textNodes = <<>>
    /\ selectedId = Null
    /\ historyIndex = 0
    /\ Len(history) >= 2

\* C5: at most one object of the live list is being edited.
C5_AtMostOneEditing == Cardinality(Editing(textNodes)) <= 1

\* C6: while an object is being edited and the overlay input has the focus,
\* a blur or Enter leaves no object editing, gives the edited object the
\* overlay's text and keeps the text of every other object.
C6_CommitEndsEdit ==
    (mounted /\ NoGesture /\ inputFocused /\ Editing(textNodes) # {}) =>
        LET after == blurNodes(textNodes, selectedId, editText, currentColor,
                               currentFontSize)
        IN  /\ Editing(after) = {}
            /\ \A i \in DOMAIN textNodes :
                  after[i].text = IF i \in Editing(textNodes) THEN editText
                                  ELSE textNodes[i].text

\* C7: every object of the live list and of every history entry has a font
\* size of at least 5.
C7_FontSizeFloor ==
    /\ \A i \in DOMAIN textNodes : textNodes[i].fontSize >= 5
    /\ \A k \in DOMAIN history :
          \A i \in DOMAIN history[k] : history[k][i].fontSize >= 5

\* a resize that would have gone below the floor has ended: an object has a
\* cached box and the font size 5
C7_Witness ==
    \E i \in DOMAIN textNodes :
        textNodes[i].box # <<>> /\ textNodes[i].fontSize = 5

\* C8: handleFontSizeChange(s) leaves the selected object with font size
\* max(5, s), for every s.
C8_SetStyleClamps ==
    [][\A size \in SliderSizes \cup RequestedSizes :
          handleFontSizeChange(size) =>
              \A i \in DOMAIN textNodes' :
                  textNodes'[i].id = selectedId =>
                      textNodes'[i].fontSize = Max(5, size)]_vars

\* C9: no two objects of the live list share an id.
C9_UniqueIds ==
    \A i, j \in DOMAIN textNodes : i # j => textNodes[i].id # textNodes[j].id

\* C10: when the selected object exists and is not being edited, the
\* transformer is attached to exactly its scene node.
C10_TransformerOnSelection ==
    (/\ mounted
     /\ selectedId # Null
     /\ find(textNodes, selectedId) # 0
     /\ ~findIsEditing(textNodes, selectedId))
    => trNodes = <<selectedId>>

\* C11: for the event order drag start, drag end, click on the dragged text
\* node, the click is suppressed: it leaves selectedId, currentColor and
\* currentFontSize as they were after the drag end.
C11_ClickAfterDragSuppressed ==
    [][\A k \in Clock, pos \in Positions :
          (handleDragEnd(toString(k), pos) /\ TextRendered(textNodes', toString(k)))
          => clickResult(isDragging', toString(k), textNodes', selectedId',
                         currentColor', currentFontSize')
             = [selectedId |-> selectedId', currentColor |-> currentColor',
                currentFontSize |-> currentFontSize']]_vars

\* C12: when a live-transform event of a resize of the selected object is
\* followed by transform end, the font size that transform end stores in the
\* object is the candidate that the live-transform handler wrote to
\* currentFontSize.
C12_TransformEndStoresCandidate ==
    [][(/\ handleTransform
        /\ trNodes # <<>>
        /\ selectedId = trNodes[1]
        /\ find(textNodes, trNodes[1]) # 0)
       => LET after == transformEndNodes(textNodes', trNodes'[1], scaleX')
          IN  \A j \in DOMAIN after :
                  after[j].id = selectedId' => after[j].fontSize = currentFontSize']_vars

\* C13: undo with the cursor at 0 and redo with the cursor at the tail change
\* nothing: the object list, selectedId, the log and the cursor stay as they
\* are.
C13_BoundaryNoOp ==
    /\ (mounted /\ historyIndex = 0) =>
          /\ undoResult(history, historyIndex, textNodes) = Live
          /\ undoSelection(history, historyIndex, selectedId) = selectedId
    /\ (mounted /\ historyIndex = Len(history) - 1) =>
          /\ redoResult(history, historyIndex, textNodes) = Live
          /\ redoSelection(history, historyIndex, selectedId) = selectedId

\* undo has walked a log of three entries down to the cursor 0
C13_Witness ==
    /\ mounted
    /\ historyIndex = 0
    /\ Len(history) >= 3

\* the objects of nodes whose id is not id, in their order
RECURSIVE Others(_, _)
Others(nodes, id) ==
    IF nodes = <<>> THEN <<>>
    ELSE IF Head(nodes).id = id THEN Others(Tail(nodes), id)
         ELSE <<Head(nodes)>> \o Others(Tail(nodes), id)

\* C14: deleteSelected with an object selected leaves no object with that id,
\* a null selection and every other object unchanged in its order; with no
\* selection it changes nothing.  This holds in every state, also right after
\* an edit of the selected object was begun and committed.
C14_DeleteSelected ==
    /\ [](mounted =>
            LET d == deleteResult(textNodes, selectedId)
            IN  /\ d.selectedId = Null
                /\ selectedId \notin Ids(d.textNodes)
                /\ d.textNodes = Others(textNodes, selectedId)
                /\ selectedId = Null => d.textNodes = textNodes)
    /\ [][deleteSelected =>
            /\ selectedId' = Null
            /\ selectedId \notin Ids(textNodes')
            /\ textNodes' = Others(textNodes, selectedId)]_vars

\* the selected object was edited and the edit committed: the log ends with
\* the entry of the begun edit followed by the entry of the commit
C14_Witness ==
    /\ mounted
    /\ selectedId # Null
    /\ Len(history) = 4
    /\ historyIndex = 3
    /\ \E i \in DOMAIN textNodes :
          /\ textNodes[i].id = selectedId
          /\ textNodes[i].text = "Hello"
          /\ ~textNodes[i].isEditing
          /\ Len(history[3]) = Len(textNodes)
          /\ history[3][i].isEditing

\* C15: add appends exactly one object at the end of the list, at (50, 50),
\* with the placeholder text, the current font size and colour and isEditing
\* false, selects it, and leaves the objects that were there unchanged and
\* in their order.
C15_AddAppends ==
    [][\A now \in Clock :
          addTextNode(now) =>
              /\ Len(textNodes') = Len(textNodes) + 1
              /\ SubSeq(textNodes', 1, Len(textNodes)) = textNodes
              /\ LET n == textNodes'[Len(textNodes')]
                 IN  /\ n.x = 50 /\ n.y = 50
                     /\ n.text = "Double click to edit"
                     /\ n.fontSize = currentFontSize
                     /\ n.fontColor = currentColor
                     /\ n.isEditing = FALSE
                     /\ selectedId' = n.id]_vars

\* an object was added while the current colour was not the initial one
C15_Witness ==
    /\ Len(textNodes) = 2
    /\ textNodes[2].fontColor = "#ff0000"
    /\ textNodes[2].text = DefaultText
    /\ textNodes[2].x = DefaultX
    /\ selectedId = textNodes[2].id
    /\ Len(history) = 4
    /\ Len(history[3]) = 1
    /\ history[3][1].fontColor = "#ff0000"

\* C16: drag end changes the x and the y of the objects with the dragged id
\* and nothing else: their other fields, the other objects, the order,
\* selectedId, currentColor and currentFontSize stay; when no object has
\* the id, the object list and the log stay as well.
C16_MoveFrame ==
    [][\A k \in Clock, pos \in Positions :
          handleDragEnd(toString(k), pos) =>
              /\ DOMAIN textNodes' = DOMAIN textNodes
              /\ \A i \in DOMAIN textNodes :
                    IF textNodes[i].id = toString(k)
                    THEN /\ textNodes'[i].x = pos[1]
                         /\ textNodes'[i].y = pos[2]
                         /\ DOMAIN textNodes'[i] = DOMAIN textNodes[i]
                         /\ \A f \in DOMAIN textNodes[i] \ {"x", "y"} :
                               textNodes'[i][f] = textNodes[i][f]
                    ELSE textNodes'[i] = textNodes[i]
              /\ UNCHANGED <<selectedId, currentColor, currentFontSize>>
              /\ (toString(k) \notin Ids(textNodes)
                    => UNCHANGED <<textNodes, history, historyIndex>>)]_vars

\* of two objects one was dragged and the other was not
C16_Witness ==
    /\ ~isDragging
    /\ Len(textNodes) = 2
    /\ \E i, j \in DOMAIN textNodes :
          /\ textNodes[i].x = 120 /\ textNodes[i].y = 80
          /\ textNodes[j].x = DefaultX /\ textNodes[j].y = DefaultY
          /\ textNodes[i].id # textNodes[j].id

\* C17: a live-transform event leaves the object list, selectedId, the log
\* and the cursor unchanged (of the component's state it writes only
\* currentFontSize); the change of the object list by transform end is the
\* one that is recorded as a new entry at the cursor.
C17_LiveTransformNotSettled ==
    /\ [][handleTransform =>
            UNCHANGED <<textNodes, selectedId, editText, currentColor,
                        history, historyIndex>>]_vars
    /\ [][(handleTransformEnd /\ textNodes' # textNodes) =>
            /\ history' = Append(SubSeq(history, 1, historyIndex + 1), textNodes')
            /\ historyIndex' = Len(history') - 1]_vars

\* a live-transform event has written the candidate 5 to currentFontSize
\* while the selected object still has its font size and no cached box
C17_Witness ==
    \E i \in DOMAIN textNodes :
        /\ textNodes[i].id = selectedId
        /\ textNodes[i].fontSize = DefaultFontSize
        /\ textNodes[i].box = <<>>
        /\ currentFontSize = MinFontSize
        /\ scaleX = Unit

\* C18: once the log is initialised, the record pass truncates after the
\* cursor and appends a snapshot exactly when the object list differs from
\* the entry at the cursor: a pass on a list equal to that entry changes
\* nothing, an operation other than undo and redo appends exactly when its
\* list differs from the entry at the cursor, and undo and redo move the
\* cursor by one and leave the log as it is.
C18_RecordIffDiffers ==
    /\ [](mounted =>
            Record(history, historyIndex, cloneDeep(history[historyIndex + 1]))
            = [history |-> history, historyIndex |-> historyIndex])
    /\ [][(mounted /\ ~undo /\ ~redo) =>
            IF textNodes' # history[historyIndex + 1]
            THEN /\ history' = Append(SubSeq(history, 1, historyIndex + 1),
                                      textNodes')
                 /\ historyIndex' = Len(history') - 1
            ELSE UNCHANGED <<history, historyIndex>>]_vars
    /\ [][(mounted /\ undo /\ historyIndex > 0) =>
            history' = history /\ historyIndex' = historyIndex - 1]_vars
    /\ [][(mounted /\ redo /\ historyIndex < Len(history) - 1) =>
            history' = history /\ historyIndex' = historyIndex + 1]_vars

\* with the cursor below the tail, a drag of the selected object has ended
\* and the redo entries are still there
C18_Witness ==
    /\ mounted
    /\ ~isDragging
    /\ historyIndex >= 1
    /\ historyIndex < Len(history) - 1
    /\ selectedId # Null
    /\ TextRendered(textNodes, selectedId)
    /\ \E i \in DOMAIN textNodes :
          textNodes[i].id = selectedId /\ textNodes[i].x = 120

Min(a, b) == IF a <= b THEN a ELSE b

\* C19: an entry of the log is never changed: over every operation the
\* entries at the indices up to the smaller of the cursor before and the
\* cursor after are the same, and the log changes only by cutting the
\* entries above the cursor and appending the new snapshot.
C19_EntriesImmutable ==
    [][mounted =>
          /\ \A k \in 0..Min(historyIndex, historyIndex') :
                /\ k < Len(history')
                /\ history'[k + 1] = history[k + 1]
          /\ (history' # history =>
                history' = Append(SubSeq(history, 1, historyIndex + 1),
                                  textNodes'))]_vars

\* a full log whose tail was appended after a truncation: the entry under
\* the tail holds an object that the tail does not
C19_Witness ==
    /\ mounted
    /\ Len(history) = MaxHistory
    /\ historyIndex = Len(history) - 1
    /\ history[1] = <<>>
    /\ history[Len(history) - 1] # <<>>
    /\ \E i \in DOMAIN history[Len(history) - 1] :
          history[Len(history) - 1][i].id \notin Ids(textNodes)

\* C20: in the variant src/src/App.tsx at most one object of the live list
\* is being edited, in every state reachable by select, begin edit, commit
\* edit, add, delete, undo and redo.
C20_AppAtMostOneEditing == Cardinality(Editing(textNodes)) < 2

\* C21: in the variant src/src/App.tsx selectedId is null or the id of an
\* object of the live list in every reachable state, the states reached by
\* undo and redo among them.
C21_AppSelectionIsLive ==
    selectedId # Null => \E i \in DOMAIN textNodes : textNodes[i].id = selectedId

\* C22: no entry of the log holds an object with isEditing = true, and an
\* undo or a redo that moves the cursor installs a list in which no object
\* is being edited.
C22_NoEditingInHistory ==
    /\ [](\A k \in DOMAIN history : Editing(history[k]) = {})
    /\ [][((undo \/ redo) /\ historyIndex' # historyIndex)
            => Editing(textNodes') = {}]_vars

\* C23: the mount leaves the log [empty list, list with the one default
\* object] with the cursor at 1; entry 0 of the log is the empty list in
\* every state after the mount; so undo is available right after the mount,
\* and an undo that reaches the cursor 0 installs the empty list.
C23_MountHistory ==
    /\ [][FirstRender =>
            /\ Len(history') = 2
            /\ history'[1] = <<>>
            /\ Len(history'[2]) = 1
            /\ history'[2][1] = [id |-> "1", x |-> 50, y |-> 50,
                                 text |-> "Double click to edit",
                                 fontSize |-> 20, fontColor |-> "#000000",
                                 isEditing |-> FALSE, box |-> <<>>]
            /\ historyIndex' = 1
            /\ undoResult(history', historyIndex', textNodes').historyIndex = 0
            /\ undoResult(history', historyIndex', textNodes').textNodes = <<>>]_vars
    /\ [](mounted => (Len(history) >= 1 /\ history[1] = <<>>))
    /\ [][(mounted /\ undo /\ historyIndex' = 0) => textNodes' = <<>>]_vars

\* undo was pressed right after the mount
C23_Witness ==
    /\ mounted
    /\ Len(history) = 2
    /\ Len(history[2]) = 1
    /\ history[2][1].id = "1"
    /\ historyIndex = 0
    /\ textNodes = <<>>

\* C24: whenever an object is selected, currentColor is the fontColor of the
\* selected object.
C24_ColorMirrorsSelection ==
    selectedId # Null =>
        \A i \in DOMAIN textNodes :
            textNodes[i].id = selectedId => textNodes[i].fontColor = currentColor

====
